---- MODULE Spec2Model ----
(***************************************************************************)
(* Peer-review demo (src/App.jsx): the App component's collections, the    *)
(* localStorage entries behind them, and the handlers createAssignment,    *)
(* createSubmission, submitReview and refreshFromLS.                       *)
(*                                                                         *)
(* JavaScript values that may be null or undefined are encoded as          *)
(* sequences of length at most one: <<>> is null/undefined, <<v>> is v.    *)
(* A timestamp that is absent from an object is 0; Date.now() is >= 1.     *)
(***************************************************************************)
EXTENDS Integers, Sequences, FiniteSets, TLC

VARIABLES users, ls, mem, user, nextId, now, last, loop

vars == <<users, ls, mem, user, nextId, now, last, loop>>

-----------------------------------------------------------------------------
(* Bounds *)

\* Date.now() at the last handler call of a run; each call reads a later time
MaxTime == 4
\* the same for runs driven through the page of one tab
MaxPageTime == 5
\* the same for runs of two tabs
MaxTabTime == 4
\* largest reviewersPerSubmission an assignment object carries
MaxRps == 2
\* largest score a caller passes to submitReview
MaxScoreVal == 1

-----------------------------------------------------------------------------
(* JavaScript helpers *)

Null == <<>>
Some(v) == <<v>>

Min(a, b) == IF a < b THEN a ELSE b

Range(s) == {s[i] : i \in 1..Len(s)}

\* Array.prototype.findIndex / find over the set of matching indexes, 1-based;
\* 0 when nothing matches (JS: -1 / undefined)
FindIndex(matching) ==
  IF matching = {} THEN 0 ELSE CHOOSE i \in matching : \A j \in matching : i <= j

-----------------------------------------------------------------------------
(* Users: the 'users' entry of the store *)

Teachers == {"t1"}
Students == {"s1", "s2", "s3"}
AllUsers == Teachers \cup Students

Role(u) == IF u \in Teachers THEN "teacher" ELSE "student"

\* what LS.get('users', []) can return: [] before seed() has run, the seeded
\* list, or a list with fewer students
UserSets == { {}, {"t1"}, {"t1", "s1"}, {"t1", "s1", "s2"}, {"t1", "s1", "s2", "s3"} }

Tabs == {1, 2}

Criteria == {"c1", "c2"}
\* rubrics a teacher can build in RubricEditor (add / remove criteria)
Rubrics == { <<>>, <<"c1">>, <<"c1", "c2">> }

\* reviewersPerSubmission as found in an assignment object: absent, or a number
RpsValues == {Null} \cup {Some(n) : n \in (-1)..MaxRps}

Comments == {Some("")}
ScoreVals == 0..MaxScoreVal
\* the scores argument of submitReview
ScoreArgs == {Some([c \in {"c1"} |-> v]) : v \in ScoreVals}

EmptyStore == [assignments |-> <<>>, submissions |-> <<>>, reviews |-> <<>>]

-----------------------------------------------------------------------------
(* createSubmission: reviewer selection *)

\* mutant: the author is not excluded from the pool
EligibleStudents_WithAuthor(us, authorId) == {u \in us : Role(u) = "student"}

\* users.filter(u => u.role==='student' && u.id !== s.authorId)
EligibleStudents(us, authorId) == {u \in us : Role(u) = "student" /\ u # authorId}

\* mutant: ?? in place of ||, so a zero is kept
reviewersNeeded_Nullish(assignments, assignmentId) ==
  LET idx == FindIndex({i \in 1..Len(assignments) : assignments[i].id = assignmentId})
      rps == IF idx = 0 THEN Null ELSE assignments[idx].reviewersPerSubmission
  IN IF rps # Null THEN rps[1] ELSE 2

\* (assignments.find(a=>a.id===s.assignmentId)?.reviewersPerSubmission) || 2
reviewersNeeded(assignments, assignmentId) ==
  LET idx == FindIndex({i \in 1..Len(assignments) : assignments[i].id = assignmentId})
      rps == IF idx = 0 THEN Null ELSE assignments[idx].reviewersPerSubmission
  IN IF rps # Null /\ rps[1] # 0 THEN rps[1] ELSE 2

\* mutant: the pool size is missing from the loop bound
LoopCond_NoMin(chosen, needed, students) == Len(chosen) < needed

\* while (chosen.length < Math.min(reviewersNeeded, students.length))
LoopCond(chosen, needed, students) == Len(chosen) < Min(needed, Cardinality(students))

\* mutant: the pick is pushed without the includes test
PickStep_NoDedup(chosen, pick) == Append(chosen, pick)

\* if (!chosen.includes(pick.id)) chosen.push(pick.id)
PickStep(chosen, pick) == IF pick \notin Range(chosen) THEN Append(chosen, pick) ELSE chosen

\* every value `chosen` can have when the while loop exits
RECURSIVE LoopResults(_, _, _)
LoopResults(chosen, needed, students) ==
  IF ~LoopCond(chosen, needed, students) THEN {chosen}
  ELSE UNION { LoopResults(PickStep(chosen, p), needed, students) :
                 p \in {q \in students : PickStep(chosen, q) # chosen} }

\* { id: uid('ra'), submissionId: s.id, reviewerId: rid, scores: null, comment: null,
\*   assignedAt: Date.now(), status: 'pending' }
Placeholder(id, sid, rid, t) ==
  [id |-> id, submissionId |-> sid, reviewerId |-> rid, scores |-> Null, comment |-> Null,
   assignedAt |-> t, status |-> "pending", submittedAt |-> 0]

Placeholders(chosen, firstId, sid, t) ==
  [i \in 1..Len(chosen) |-> Placeholder(firstId + i - 1, sid, chosen[i], t)]

-----------------------------------------------------------------------------
(* submitReview *)

\* mutant: the status test is missing from the findIndex predicate
PendingIndex_AnyStatus(reviews, submissionId, reviewerId) ==
  FindIndex({i \in 1..Len(reviews) : /\ reviews[i].submissionId = submissionId
                                      /\ reviews[i].reviewerId = reviewerId})

\* copy.findIndex(r => r.submissionId===submissionId && r.reviewerId===reviewerId && r.status==='pending')
PendingIndex(reviews, submissionId, reviewerId) ==
  FindIndex({i \in 1..Len(reviews) : /\ reviews[i].submissionId = submissionId
                                      /\ reviews[i].reviewerId = reviewerId
                                      /\ reviews[i].status = "pending"})

\* mutant: the placeholder is rebuilt instead of spread, assignedAt is re-stamped
UpdatedReview_Restamped(r, scores, comment, t) ==
  [r EXCEPT !.scores = scores, !.comment = comment, !.status = "done", !.submittedAt = t,
            !.assignedAt = t]

\* mutant: the scores are left out of the update
UpdatedReview_NoScores(r, scores, comment, t) ==
  [r EXCEPT !.comment = comment, !.status = "done", !.submittedAt = t]

\* { ...copy[idx], scores, comment, status: 'done', submittedAt: Date.now() }
UpdatedReview(r, scores, comment, t) ==
  [r EXCEPT !.scores = scores, !.comment = comment, !.status = "done", !.submittedAt = t]

\* { id: uid('r'), submissionId, reviewerId, scores, comment, status:'done', submittedAt: Date.now() }
InsertedReview(id, submissionId, reviewerId, scores, comment, t) ==
  [id |-> id, submissionId |-> submissionId, reviewerId |-> reviewerId, scores |-> scores,
   comment |-> comment, assignedAt |-> 0, status |-> "done", submittedAt |-> t]

\* the updater passed to setReviews
ReviewsAfterSubmit(prev, id, submissionId, reviewerId, scores, comment, t) ==
  LET idx == PendingIndex(prev, submissionId, reviewerId)
  IN IF idx > 0
     THEN [prev EXCEPT ![idx] = UpdatedReview(prev[idx], scores, comment, t)]
     ELSE Append(prev, InsertedReview(id, submissionId, reviewerId, scores, comment, t))

-----------------------------------------------------------------------------
(* State *)

NoLoop == [pc |-> "idle"]

Init ==
  /\ users \in UserSets
  /\ ls = EmptyStore
  /\ mem = [t \in Tabs |-> EmptyStore]
  /\ user = [t \in Tabs |-> Null]
  /\ nextId = 1
  /\ now = 1
  /\ last = [op |-> "init"]
  /\ loop = NoLoop

\* mutant: the records of the store entry are kept and the tab's new ones added
Persist_Merging(store, m, keys) ==
  [k \in DOMAIN store |->
     IF k \in keys
     THEN store[k] \o SelectSeq(m[k], LAMBDA x : x \notin Range(store[k]))
     ELSE store[k]]

\* useEffect(()=> LS.set(key, collection), [collection]) for the collections in `keys`
Persist(store, m, keys) ==
  [k \in DOMAIN store |-> IF k \in keys THEN m[k] ELSE store[k]]

\* createAssignment(a), a built as CreateAssignment.submit builds it
createAssignment(t, rubric, rps) ==
  /\ LET a == [id |-> nextId, rubric |-> rubric, createdAt |-> now, reviewersPerSubmission |-> rps]
     IN mem' = [mem EXCEPT ![t].assignments = Append(@, a)]
  /\ ls' = Persist(ls, mem'[t], {"assignments"})
  /\ nextId' = nextId + 1
  /\ now' = now + 1
  /\ last' = [op |-> "createAssignment", tab |-> t]
  /\ UNCHANGED <<users, user, loop>>

\* the state updates of createSubmission once `chosen` is known (lines 182, 192-193)
CommitSubmission(t, authorId, assignmentId, needed, chosen) ==
  /\ LET s == [id |-> nextId, assignmentId |-> assignmentId, authorId |-> authorId,
               version |-> 1, createdAt |-> now]
     IN /\ mem' = [mem EXCEPT ![t].submissions = Append(@, s),
                              ![t].reviews = @ \o Placeholders(chosen, nextId + 1, s.id, now)]
        /\ last' = [op |-> "createSubmission", tab |-> t, submissionId |-> s.id,
                    authorId |-> authorId, assignmentId |-> assignmentId,
                    reviewersNeeded |-> needed]
  /\ nextId' = nextId + 1 + Len(chosen)
  /\ ls' = Persist(ls, mem'[t], {"submissions", "reviews"})
  /\ now' = now + 1
  /\ UNCHANGED <<users, user>>

\* createSubmission(s), s built as SubmitForm.submit builds it
createSubmission(t, authorId, assignmentId) ==
  /\ LET students == EligibleStudents(users, authorId)
         needed == reviewersNeeded(mem[t].assignments, assignmentId)
     IN \E chosen \in LoopResults(<<>>, needed, students) :
          CommitSubmission(t, authorId, assignmentId, needed, chosen)
  /\ UNCHANGED loop

submitReview(t, submissionId, reviewerId, scores, comment) ==
  /\ mem' = [mem EXCEPT ![t].reviews =
               ReviewsAfterSubmit(@, nextId, submissionId, reviewerId, scores, comment, now)]
  /\ ls' = Persist(ls, mem'[t], {"reviews"})
  /\ nextId' = IF PendingIndex(mem[t].reviews, submissionId, reviewerId) > 0
               THEN nextId ELSE nextId + 1
  /\ now' = now + 1
  /\ last' = [op |-> "submitReview", tab |-> t, submissionId |-> submissionId,
              reviewerId |-> reviewerId, scores |-> scores, comment |-> comment]
  /\ UNCHANGED <<users, user, loop>>

\* the Reload button
refreshFromLS(t) ==
  /\ mem' = [mem EXCEPT ![t] = ls]
  /\ now' = now + 1
  /\ last' = [op |-> "refreshFromLS", tab |-> t]
  /\ UNCHANGED <<users, ls, user, nextId, loop>>

-----------------------------------------------------------------------------
(* The handlers called with any arguments, one tab *)

SubmissionIds(t) == {mem[t].submissions[i].id : i \in 1..Len(mem[t].submissions)}
AssignmentIds(t) == {mem[t].assignments[i].id : i \in 1..Len(mem[t].assignments)}

\* an id no assignment / submission has
NoId == 0

CallCreateAssignment == now < MaxTime /\ \E rps \in RpsValues : createAssignment(1, <<"c1">>, rps)
CallCreateSubmission ==
  now < MaxTime /\ \E authorId \in AllUsers, aid \in AssignmentIds(1) \cup {NoId} : createSubmission(1, authorId, aid)
CallSubmitReview ==
  now < MaxTime /\ \E sid \in SubmissionIds(1) \cup {NoId}, rid \in AllUsers, scores \in ScoreArgs, comment \in Comments :
    submitReview(1, sid, rid, scores, comment)
CallRefresh == now < MaxTime /\ refreshFromLS(1)

Next == CallCreateAssignment \/ CallCreateSubmission \/ CallSubmitReview \/ CallRefresh

Spec == Init /\ [][Next]_vars

\* number of users with role student other than `authorId`
PoolSizeOf(authorId) == Cardinality({u \in users : Role(u) = "student" /\ u # authorId})

-----------------------------------------------------------------------------
(* createSubmission step by step: the while loop of lines 186-190 *)

\* lines 184-186: the pool, the requested number, chosen = []
BeginCreateSubmission(t, authorId, assignmentId) ==
  /\ loop.pc = "idle"
  /\ now < MaxTime
  /\ loop' = [pc |-> "loop", tab |-> t, authorId |-> authorId, assignmentId |-> assignmentId,
              students |-> EligibleStudents(users, authorId),
              reviewersNeeded |-> reviewersNeeded(mem[t].assignments, assignmentId),
              chosen |-> <<>>]
  /\ UNCHANGED <<users, ls, mem, user, nextId, now, last>>

\* one iteration: Math.random() selects `pick`
Pick(pick) ==
  /\ loop.pc = "loop"
  /\ LoopCond(loop.chosen, loop.reviewersNeeded, loop.students)
  /\ pick \in loop.students
  /\ loop' = [loop EXCEPT !.chosen = PickStep(@, pick)]
  /\ UNCHANGED <<users, ls, mem, user, nextId, now, last>>

\* the loop condition is false: lines 192-193
ExitLoop ==
  /\ loop.pc = "loop"
  /\ ~LoopCond(loop.chosen, loop.reviewersNeeded, loop.students)
  /\ CommitSubmission(loop.tab, loop.authorId, loop.assignmentId, loop.reviewersNeeded, loop.chosen)
  /\ loop' = NoLoop

LoopCreateAssignment ==
  /\ loop.pc = "idle"
  /\ now < MaxTime
  /\ \E rps \in RpsValues : createAssignment(1, <<"c1">>, rps)
LoopBegin ==
  \E authorId \in AllUsers, aid \in AssignmentIds(1) \cup {NoId} : BeginCreateSubmission(1, authorId, aid)
LoopPick == \E pick \in Students : Pick(pick)

NextLoop == LoopCreateAssignment \/ LoopBegin \/ LoopPick \/ ExitLoop

\* the handler runs to completion, and Math.random() does not avoid a student forever
SpecLoop ==
  /\ Init /\ [][NextLoop]_vars
  /\ WF_vars(ExitLoop)
  /\ \A pick \in Students : WF_vars(Pick(pick))

\* Math.min(reviewersNeeded, students.length) of the running call
LoopTarget == Min(loop.reviewersNeeded, PoolSizeOf(loop.authorId))

-----------------------------------------------------------------------------
(* Properties of the handlers called with any arguments (Spec) *)

\* the step just taken was a call of handler `op`
Called(op) == last'.op = op

\* the reviews a step appended to the tab's collection
Appended(t) == SubSeq(mem'[t].reviews, Len(mem[t].reviews) + 1, Len(mem'[t].reviews))
KeptPrefix(t) == /\ Len(mem'[t].reviews) >= Len(mem[t].reviews)
                 /\ SubSeq(mem'[t].reviews, 1, Len(mem[t].reviews)) = mem[t].reviews

\* reviewersPerSubmission of the assignment a submission names; Null when the
\* assignment is not found or carries none
RpsOf(assignments, assignmentId) ==
  IF \E i \in 1..Len(assignments) : assignments[i].id = assignmentId
  THEN (CHOOSE a \in Range(assignments) : a.id = assignmentId).reviewersPerSubmission
  ELSE Null

\* "defaulting to 2 if unset or non-positive"
RequestedAsClaimed(rps) == IF rps # Null /\ rps[1] > 0 THEN rps[1] ELSE 2
\* the value itself unless it is unset or zero
RequestedAsAmended(rps) == IF rps # Null /\ rps[1] # 0 THEN rps[1] ELSE 2

PlaceholdersMatch(t, n) ==
  /\ KeptPrefix(t)
  /\ Len(Appended(t)) = n
  /\ \A i \in 1..Len(Appended(t)) :
       /\ Appended(t)[i].status = "pending"
       /\ Appended(t)[i].submissionId = last'.submissionId

\* C1 (as stated): every createSubmission call appends exactly
\* min(reviewersPerSubmission, eligible pool size) pending placeholders for the
\* new submission, reviewersPerSubmission defaulting to 2 if unset or non-positive.
C1_AsStated ==
  [][Called("createSubmission") =>
       PlaceholdersMatch(last'.tab,
         Min(RequestedAsClaimed(RpsOf(mem[last'.tab].assignments, last'.assignmentId)),
             PoolSizeOf(last'.authorId)))]_vars

\* C1 (amended): every createSubmission call appends exactly min(n, pool)
\* pending placeholders for the new submission, and none when n is negative or
\* the pool is empty, where n is the assignment's reviewersPerSubmission, or 2
\* when that is unset or zero or the assignment is not found.
C1_PlaceholderCount ==
  [][Called("createSubmission") =>
       LET n == RequestedAsAmended(RpsOf(mem[last'.tab].assignments, last'.assignmentId))
           pool == PoolSizeOf(last'.authorId)
       IN /\ PlaceholdersMatch(last'.tab, IF n < 0 THEN 0 ELSE Min(n, pool))
          /\ (pool = 0 => mem'[last'.tab].reviews = mem[last'.tab].reviews)]_vars

SubmissionOf(t, sid) == {s \in Range(mem[t].submissions) : s.id = sid}
PendingOf(t, sid) == {r \in Range(mem[t].reviews) : r.submissionId = sid /\ r.status = "pending"}

\* a submission got fewer placeholders than its assignment asks for (pool too small)
C1_Witness ==
  /\ last.op = "createSubmission"
  /\ RpsOf(mem[1].assignments, last.assignmentId) = Some(2)
  /\ PoolSizeOf(last.authorId) = 1
  /\ Cardinality(PendingOf(1, last.submissionId)) = 1

C3_DistinctReviewers ==
  \A t \in Tabs : \A i, j \in 1..Len(mem[t].reviews) :
    LET r == mem[t].reviews[i]
        q == mem[t].reviews[j]
    IN (i # j /\ r.status = "pending" /\ q.status = "pending" /\ r.submissionId = q.submissionId)
         => r.reviewerId # q.reviewerId

\* two placeholders were created for one submission
C3_Witness == \E s \in Range(mem[1].submissions) : Cardinality(PendingOf(1, s.id)) >= 2

PendingRows(reviews, sid, rid) ==
  {i \in 1..Len(reviews) : /\ reviews[i].submissionId = sid /\ reviews[i].reviewerId = rid
                           /\ reviews[i].status = "pending"}

\* C4: submitReview for a pair that has a pending review changes exactly that
\* record: scores and comment become the supplied values, status becomes done,
\* submittedAt is set; id, submissionId, reviewerId, assignedAt stay; every other
\* review and the length of the collection are unchanged.
C4_UpdateInPlace ==
  [][(Called("submitReview") /\
        PendingRows(mem[last'.tab].reviews, last'.submissionId, last'.reviewerId) # {}) =>
       LET before == mem[last'.tab].reviews
           after == mem'[last'.tab].reviews
           changed == {i \in 1..Len(before) : i > Len(after) \/ after[i] # before[i]}
       IN /\ Len(after) = Len(before)
          /\ Cardinality(changed) = 1
          /\ changed \subseteq PendingRows(before, last'.submissionId, last'.reviewerId)
          /\ \A idx \in changed :
               /\ after[idx].scores = last'.scores
               /\ after[idx].comment = last'.comment
               /\ after[idx].status = "done"
               /\ after[idx].submittedAt = now
               /\ after[idx].submittedAt # 0
               /\ after[idx].id = before[idx].id
               /\ after[idx].submissionId = before[idx].submissionId
               /\ after[idx].reviewerId = before[idx].reviewerId
               /\ after[idx].assignedAt = before[idx].assignedAt]_vars

\* a placeholder was completed while another placeholder of the submission is still pending
C4_Witness ==
  /\ last.op = "submitReview"
  /\ \E r \in Range(mem[1].reviews) :
       /\ r.submissionId = last.submissionId /\ r.reviewerId = last.reviewerId
       /\ r.status = "done" /\ r.assignedAt # 0 /\ r.scores = last.scores
  /\ PendingOf(1, last.submissionId) # {}

AllIds(t) == {x.id : x \in Range(mem[t].reviews) \cup Range(mem[t].submissions)
                              \cup Range(mem[t].assignments)}

DoneRows(t, sid, rid) ==
  {i \in 1..Len(mem[t].reviews) : /\ mem[t].reviews[i].submissionId = sid
                                  /\ mem[t].reviews[i].reviewerId = rid
                                  /\ mem[t].reviews[i].status = "done"}

\* C5: submitReview for a pair without a pending review (never assigned, or
\* already done) appends exactly one review with a fresh id, status done and the
\* supplied scores and comment; the collection grows by 1 and every existing
\* review is unchanged, so a second call for an assigned pair leaves two done
\* rows for that pair.
C5_InsertWhenNoPending ==
  [][(Called("submitReview") /\
        PendingRows(mem[last'.tab].reviews, last'.submissionId, last'.reviewerId) = {}) =>
       LET t == last'.tab
           new == Appended(t)
       IN /\ KeptPrefix(t)
          /\ Len(mem'[t].reviews) = Len(mem[t].reviews) + 1
          /\ new[1].id \notin AllIds(t)
          /\ new[1].status = "done"
          /\ new[1].submissionId = last'.submissionId
          /\ new[1].reviewerId = last'.reviewerId
          /\ new[1].scores = last'.scores
          /\ new[1].comment = last'.comment
          /\ (DoneRows(t, last'.submissionId, last'.reviewerId) # {} =>
                Cardinality({i \in 1..Len(mem'[t].reviews) :
                               /\ mem'[t].reviews[i].submissionId = last'.submissionId
                               /\ mem'[t].reviews[i].reviewerId = last'.reviewerId
                               /\ mem'[t].reviews[i].status = "done"}) >= 2)]_vars

\* an assigned reviewer submitted twice: the completed placeholder and an inserted row
C5_Witness ==
  /\ last.op = "submitReview"
  /\ Cardinality(DoneRows(1, last.submissionId, last.reviewerId)) = 2
  /\ \E i \in DoneRows(1, last.submissionId, last.reviewerId) : mem[1].reviews[i].assignedAt # 0

\* C6 (as stated): the number of reviewers requested is reviewersPerSubmission
\* when it is a positive integer and 2 when it is unset, not found, zero or negative.
C6_AsStated ==
  last.op = "createSubmission" =>
    last.reviewersNeeded =
      RequestedAsClaimed(RpsOf(mem[last.tab].assignments, last.assignmentId))

\* C6 (amended): the number of reviewers requested is reviewersPerSubmission
\* when it is a nonzero integer, positive or negative, and 2 when it is unset,
\* zero, or the assignment is not found.
C6_RequestedReviewers ==
  last.op = "createSubmission" =>
    LET rps == RpsOf(mem[last.tab].assignments, last.assignmentId)
    IN /\ (rps # Null /\ rps[1] > 0) => last.reviewersNeeded = rps[1]
       /\ (rps # Null /\ rps[1] < 0) => last.reviewersNeeded = rps[1]
       /\ (rps = Null \/ rps = Some(0)) => last.reviewersNeeded = 2

\* a submission to an assignment whose reviewersPerSubmission is zero
C6_Witness ==
  /\ last.op = "createSubmission"
  /\ RpsOf(mem[1].assignments, last.assignmentId) = Some(0)
  /\ last.reviewersNeeded = 2

-----------------------------------------------------------------------------
(* The handlers driven through the rendered page *)

FormScoreVals == 0..MaxScoreVal
FormComments == {""}

\* ReviewForm's initial scores state; existingReview is never passed (line 313)
InitialScores(rubric) == [c \in Range(rubric) |-> 0]

\* the scores state after any number of setScore(c.id, value) on the rendered inputs
FormScores(rubric) ==
  {f \in UNION {[S -> FormScoreVals] : S \in SUBSET Range(rubric)} :
     DOMAIN InitialScores(rubric) \subseteq DOMAIN f}

\* for (let c of assignment.rubric) if (scores[c.id] == null) return alert(...)
ScoresFilled(scores, rubric) == \A c \in Range(rubric) : c \in DOMAIN scores

\* mutant: the form is rendered whatever the status
OffersForm_Always(r) == TRUE

\* r.status === 'pending' ? <ReviewForm .../> : <div>Submitted</div>
OffersForm(r) == r.status = "pending"

\* reviews.filter(r=> r.reviewerId === user?.id)
myAssignedReviews(t) ==
  IF user[t] = Null THEN {}
  ELSE {r \in Range(mem[t].reviews) : r.reviewerId = user[t][1]}

\* Login: onLogin(users.find(u=>u.id===sel))
Login(t, u) ==
  /\ user[t] = Null
  /\ u \in users
  /\ user' = [user EXCEPT ![t] = Some(u)]
  /\ last' = [op |-> "login", tab |-> t]
  /\ UNCHANGED <<users, ls, mem, nextId, now, loop>>

logout(t) ==
  /\ user[t] # Null
  /\ user' = [user EXCEPT ![t] = Null]
  /\ last' = [op |-> "logout", tab |-> t]
  /\ UNCHANGED <<users, ls, mem, nextId, now, loop>>

\* the teacher page: CreateAssignment.submit
PageCreateAssignment(t) ==
  /\ user[t] # Null /\ Role(user[t][1]) = "teacher"
  /\ \E rubric \in Rubrics : createAssignment(t, rubric, Some(2))

\* the student page: SubmitForm.submit for a listed assignment
PageSubmit(t) ==
  /\ user[t] # Null /\ Role(user[t][1]) # "teacher"
  /\ \E a \in Range(mem[t].assignments) : createSubmission(t, user[t][1], a.id)

\* the student page: ReviewForm.submit for an assigned review. The form needs the
\* submission and its assignment in the tab's memory: without them ReviewForm
\* reads assignment.rubric of undefined and rendering throws, so nothing is submitted.
PageSubmitReview(t) ==
  /\ user[t] # Null /\ Role(user[t][1]) # "teacher"
  /\ \E r \in myAssignedReviews(t) :
       /\ OffersForm(r)
       /\ \E sub \in Range(mem[t].submissions), a \in Range(mem[t].assignments) :
            /\ sub.id = r.submissionId
            /\ a.id = sub.assignmentId
            /\ \E scores \in FormScores(a.rubric), comment \in FormComments :
                 /\ ScoresFilled(scores, a.rubric)
                 /\ submitReview(t, r.submissionId, r.reviewerId, Some(scores), Some(comment))

\* the Reload button of the header
PageReload(t) ==
  /\ user[t] # Null
  /\ refreshFromLS(t)

UILogin == \E u \in AllUsers : Login(1, u)
UILogout == logout(1)
UICreateAssignment == now < MaxPageTime /\ PageCreateAssignment(1)
UISubmit == now < MaxPageTime /\ PageSubmit(1)
UISubmitReview == now < MaxPageTime /\ PageSubmitReview(1)
UIReload == now < MaxPageTime /\ PageReload(1)

NextUI == UILogin \/ UILogout \/ UICreateAssignment \/ UISubmit \/ UISubmitReview \/ UIReload

SpecUI == Init /\ [][NextUI]_vars

RubricOfReview(t, r) ==
  {a.rubric : a \in {b \in Range(mem[t].assignments) :
                       \E sub \in Range(mem[t].submissions) :
                         sub.id = r.submissionId /\ sub.assignmentId = b.id}}

\* C8: every done review has a scores mapping with one entry for each criterion
\* of the rubric of its submission's assignment, and every pending review has
\* scores null and comment null.
C8_ScoresPopulated ==
  \A r \in Range(mem[1].reviews) :
    /\ r.status = "done" =>
         /\ r.scores # Null
         /\ RubricOfReview(1, r) # {}
         /\ \A rubric \in RubricOfReview(1, r) : DOMAIN r.scores[1] = Range(rubric)
    /\ r.status = "pending" => (r.scores = Null /\ r.comment = Null)

\* a review of a two-criterion assignment is done while another one is pending
C8_Witness ==
  /\ \E r \in Range(mem[1].reviews) :
       r.status = "done" /\ r.scores # Null /\ DOMAIN r.scores[1] = {"c1", "c2"}
  /\ \E r \in Range(mem[1].reviews) : r.status = "pending"

OneReviewPerPair ==
  \A i, j \in 1..Len(mem[1].reviews) :
    (/\ mem[1].reviews[i].submissionId = mem[1].reviews[j].submissionId
     /\ mem[1].reviews[i].reviewerId = mem[1].reviews[j].reviewerId) => i = j

\* C10: driven through the page of one tab, submitReview always takes the update
\* branch, there is at most one review per (submissionId, reviewerId) pair, and a
\* done review is never changed again nor returned to pending.
C10_PageDriven ==
  /\ []OneReviewPerPair
  /\ [][Called("submitReview") =>
          PendingRows(mem[1].reviews, last'.submissionId, last'.reviewerId) # {}]_vars
  /\ [][\A i \in 1..Len(mem[1].reviews) :
          mem[1].reviews[i].status = "done" =>
            (i <= Len(mem'[1].reviews) /\ mem'[1].reviews[i] = mem[1].reviews[i])]_vars

\* a reviewer completed a placeholder and is still logged in on the page
C10_Witness ==
  /\ last.op = "submitReview"
  /\ user[1] = Some(last.reviewerId)
  /\ \E r \in myAssignedReviews(1) : r.submissionId = last.submissionId /\ r.status = "done"

-----------------------------------------------------------------------------
(* Two tabs on one localStorage *)

TabsLogin == \E t \in Tabs, u \in AllUsers : Login(t, u)
TabsLogout == \E t \in Tabs : logout(t)
TabsCreateAssignment == now < MaxTabTime /\ \E t \in Tabs : PageCreateAssignment(t)
TabsSubmit == now < MaxTabTime /\ \E t \in Tabs : PageSubmit(t)
TabsSubmitReview == now < MaxTabTime /\ \E t \in Tabs : PageSubmitReview(t)
TabsReload == now < MaxTabTime /\ \E t \in Tabs : PageReload(t)

NextTabs ==
  TabsLogin \/ TabsLogout \/ TabsCreateAssignment \/ TabsSubmit \/ TabsSubmitReview \/ TabsReload

SpecTabs == Init /\ [][NextTabs]_vars

\* the collections a handler replaces, hence the store entries its effects rewrite
WrittenBy(op) ==
  IF op = "createAssignment" THEN {"assignments"}
  ELSE IF op = "createSubmission" THEN {"submissions", "reviews"}
  ELSE IF op = "submitReview" THEN {"reviews"}
  ELSE {}

\* C9: last writer wins. When a tab persists a collection after a mutation the
\* store entry becomes exactly that tab's in-memory collection, so records of
\* the store that the tab does not hold are discarded; the other entries and
\* the other tab are untouched; Reload replaces the tab's assignments,
\* submissions and reviews by the store's contents without merging.
C9_LastWriterWins ==
  [][/\ \A k \in WrittenBy(last'.op) :
          /\ ls'[k] = mem'[last'.tab][k]
          /\ \A x \in Range(ls[k]) : x \notin Range(mem'[last'.tab][k]) => x \notin Range(ls'[k])
     /\ \A k \in DOMAIN ls \ WrittenBy(last'.op) : ls'[k] = ls[k]
     /\ \A t \in Tabs \ {last'.tab} : mem'[t] = mem[t]
     /\ Called("refreshFromLS") => (mem'[last'.tab] = ls /\ ls' = ls)]_vars

\* tab 2 has just overwritten the assignments entry: the assignment tab 1
\* created and still holds is gone from the store
C9_Witness ==
  /\ last.op = "createAssignment"
  /\ last.tab = 2
  /\ \E a \in Range(mem[1].assignments) : a \notin Range(ls.assignments)

====
